---------------------------- MODULE Spec2Model ----------------------------
(***************************************************************************)
(* oxphobia: dependency resolution engine.                                 *)
(*                                                                         *)
(* The repository holds two generations of the command line program:      *)
(*   src/cli.js            acorn + terser, remote (jsDelivr) only          *)
(*   src/unnamed/part_001  oxc-parser + oxc-minify, remote and local       *)
(* The variable impl says which of the two files is running.  Where the    *)
(* two files agree, the line numbers quoted are those of part_001.         *)
(*                                                                         *)
(* JavaScript values are encoded as records tagged by the field k:         *)
(*   undefined, null, strings, booleans, arrays and objects.  An object    *)
(*   carries its own properties as further record fields.                  *)
(***************************************************************************)
EXTENDS Integers, Sequences, FiniteSets, TLC

VARIABLES
  impl,        \* "part_001" or "cli": the source file that is running
  exNode,      \* extraction: the syntax tree handed to findDependencies
  exDeps,      \* extraction: the Set deps after findDependencies returned
  exPc,        \* extraction: "parsed" before the walk, "walked" after it
  network,     \* "reliable": a fetch fails only for what does not exist; "flaky"
  targetPkg,   \* the entry specifier
  runPc,       \* run(): "start", "awaiting" the promise, "exited"
  tasks,       \* the enqueueFile tasks started so far, in the order started
  parsedUrls,  \* the Set parsedUrls
  bundleParts, \* the array bundleParts; a text is written as its location
  activeTasks, \* the counter activeTasks
  onQueueEmpty,\* null, or the resolve function of the promise run() awaits
  completions, \* how many times that resolve function has been called
  hasError,    \* the flag hasError
  pkgResolveCache, \* the Map pkgResolveCache: specifier -> targetUrls
  exitCode,    \* the exit status of run(), -1 while it runs
  stages,      \* what run() did after the promise resolved, in order
  manifestFetches, \* the package.json URLs handed to fetch so far, in order
  rsExp,       \* resolution: the export-map value handed to resolveExports
  rsSpecifier, \* resolution: the specifier handed to resolvePackageUrl
  rsManifest,  \* resolution: the package.json fetched for it, or null
  rsBaseUrl,   \* resolution: the baseUrl handed to resolveUrl, or null
  rsResolved,  \* resolution: what resolveExports returned
  rsTargetUrls,\* resolution: the targetUrls resolvePackageUrl returned
  rsPc         \* resolution: "exports" / "package" / "url" before the call,
               \* "returned" or, for resolveUrl, "classified" after it

exVars == <<exNode, exDeps, exPc>>
rsVars == <<rsExp, rsSpecifier, rsManifest, rsBaseUrl, rsResolved, rsTargetUrls, rsPc>>

Impls == {"part_001", "cli"}

---------------------------------------------------------------------------
(* JavaScript values *)

Undefined == [k |-> "undefined"]
Null == [k |-> "null"]
Str(s) == [k |-> "str", s |-> s]
Bool(b) == [k |-> "bool", b |-> b]
Arr(items) == [k |-> "arr", items |-> items]

IsStr(v) == v.k = "str"
\* typeof v === 'object' && v !== null
IsObject(v) == v.k \in {"obj", "arr"}
IsArray(v) == v.k = "arr"

\* v[key]: a missing property reads as undefined
Get(v, key) == IF key \in DOMAIN v THEN v[key] ELSE Undefined

\* ToBoolean(v)
Truthy(v) ==
  CASE v.k = "undefined" -> FALSE
    [] v.k = "null" -> FALSE
    [] v.k = "str" -> v.s # ""
    [] v.k = "bool" -> v.b
    [] OTHER -> TRUE

\* a && b, a || b
JsAnd(a, b) == IF Truthy(a) THEN b ELSE a
JsOr(a, b) == IF Truthy(a) THEN a ELSE b

---------------------------------------------------------------------------
(* Strings, URLs and paths *)

\* s.startsWith(p), s.endsWith(p)
startsWith(s, p) == Len(s) >= Len(p) /\ SubSeq(s, 1, Len(p)) = p
endsWith(s, p) == Len(s) >= Len(p) /\ SubSeq(s, Len(s) - Len(p) + 1, Len(s)) = p

\* s.indexOf(c) for a one-character c, counted from 1; 0 when absent
indexOf(s, c) ==
  IF \E i \in 1..Len(s) : SubSeq(s, i, i) = c
  THEN CHOOSE i \in 1..Len(s) :
         /\ SubSeq(s, i, i) = c
         /\ \A j \in 1..(i - 1) : SubSeq(s, j, j) # c
  ELSE 0

\* s.split(c) for a one-character c
RECURSIVE split(_, _)
split(s, c) ==
  LET i == indexOf(s, c)
  IN IF i = 0 THEN <<s>>
     ELSE <<SubSeq(s, 1, i - 1)>> \o split(SubSeq(s, i + 1, Len(s)), c)

\* parts.join(c)
RECURSIVE join(_, _)
join(parts, c) ==
  IF Len(parts) = 0 THEN ""
  ELSE IF Len(parts) = 1 THEN parts[1]
  ELSE parts[1] \o c \o join(Tail(parts), c)

\* parts.slice(n) for a 0-based n
slice(parts, n) == SubSeq(parts, n + 1, Len(parts))

\* dot segments removed, as URL parsing and path.resolve both do
RECURSIVE removeDotSegments(_, _)
removeDotSegments(segments, out) ==
  IF Len(segments) = 0 THEN out
  ELSE LET s == Head(segments)
           last == Len(segments) = 1
       IN IF s = "." THEN removeDotSegments(Tail(segments), IF last THEN Append(out, "") ELSE out)
          ELSE IF s = ".."
          THEN removeDotSegments(Tail(segments),
                 LET up == IF Len(out) > 0 THEN SubSeq(out, 1, Len(out) - 1) ELSE out
                 IN IF last THEN Append(up, "") ELSE up)
          ELSE removeDotSegments(Tail(segments), Append(out, s))

\* new URL(url, baseUrl).href for an http(s) baseUrl; url is a path
\* reference ("./x", "../x", "/x", "x") or itself an absolute URL
urlHref(url, baseUrl) ==
  IF startsWith(url, "http://") \/ startsWith(url, "https://") THEN url
  ELSE
    LET b == split(baseUrl, "/")           \* <<"https:", "", host, path...>>
        origin == join(SubSeq(b, 1, 3), "/")
        baseDir == SubSeq(b, 4, Len(b) - 1)
        path == IF startsWith(url, "/") THEN Tail(split(url, "/"))
                ELSE baseDir \o split(url, "/")
    IN origin \o "/" \o join(removeDotSegments(path, <<>>), "/")

\* path.dirname(p) for an absolute or relative POSIX path
pathDirname(p) ==
  LET parts == split(p, "/")
  IN IF Len(parts) = 1 THEN "."
     ELSE IF Len(parts) = 2 /\ parts[1] = "" THEN "/"
     ELSE join(SubSeq(parts, 1, Len(parts) - 1), "/")

\* the working directory of the process
cwd == "/w"

\* path.resolve(dir, p)
pathResolve(dir, p) ==
  LET from == IF startsWith(p, "/") THEN p
              ELSE IF startsWith(dir, "/") THEN dir \o "/" \o p
              ELSE cwd \o "/" \o dir \o "/" \o p
      segments == SelectSeq(removeDotSegments(Tail(split(from, "/")), <<>>), LAMBDA s : s # "")
  IN "/" \o join(segments, "/")

---------------------------------------------------------------------------
(* Syntax tree nodes, as the parsers build them (ESTree) *)

Node(type) == [k |-> "obj", type |-> Str(type)]
Literal(litType, s) == [k |-> "obj", type |-> Str(litType), value |-> Str(s)]
NumLiteral == [k |-> "obj", type |-> Str("Literal"), value |-> [k |-> "num", n |-> 1]]
Identifier(name) == [k |-> "obj", type |-> Str("Identifier"), name |-> Str(name)]
MemberExpression(object, property, computed) ==
  [k |-> "obj", type |-> Str("MemberExpression"), object |-> object,
   property |-> property, computed |-> Bool(computed)]
BinaryExpression(operator, left, right) ==
  [k |-> "obj", type |-> Str("BinaryExpression"), operator |-> Str(operator),
   left |-> left, right |-> right]
LogicalExpression(operator, left, right) ==
  [k |-> "obj", type |-> Str("LogicalExpression"), operator |-> Str(operator),
   left |-> left, right |-> right]
CallExpression(callee, arguments) ==
  [k |-> "obj", type |-> Str("CallExpression"), callee |-> callee,
   arguments |-> Arr(arguments)]
ImportExpression(source) ==
  [k |-> "obj", type |-> Str("ImportExpression"), source |-> source]
ExpressionStatement(expression) ==
  [k |-> "obj", type |-> Str("ExpressionStatement"), expression |-> expression]
BlockStatement(body) ==
  [k |-> "obj", type |-> Str("BlockStatement"), body |-> Arr(body)]
IfStatement(test, consequent, alternate) ==
  [k |-> "obj", type |-> Str("IfStatement"), test |-> test,
   consequent |-> consequent, alternate |-> alternate]
ConditionalExpression(test, consequent, alternate) ==
  [k |-> "obj", type |-> Str("ConditionalExpression"), test |-> test,
   consequent |-> consequent, alternate |-> alternate]
ImportDeclaration(source) ==
  [k |-> "obj", type |-> Str("ImportDeclaration"), specifiers |-> Arr(<<>>),
   source |-> source]
ExportAllDeclaration(source) ==
  [k |-> "obj", type |-> Str("ExportAllDeclaration"), exported |-> Null,
   source |-> source]
ExportNamedDeclaration(source) ==
  [k |-> "obj", type |-> Str("ExportNamedDeclaration"), declaration |-> Null,
   specifiers |-> Arr(<<>>), source |-> source]
Program(body) ==
  [k |-> "obj", type |-> Str("Program"), body |-> Arr(body)]

ExportedDeclaration(declaration) ==
  [k |-> "obj", type |-> Str("ExportNamedDeclaration"), declaration |-> declaration,
   specifiers |-> Arr(<<>>), source |-> Null]
VariableDeclaration(init) ==
  [k |-> "obj", type |-> Str("VariableDeclaration"), kind |-> Str("const"),
   declarations |-> Arr(<<[k |-> "obj", type |-> Str("VariableDeclarator"),
                           id |-> Identifier("x"), init |-> init]>>)]
FunctionDeclaration(body) ==
  [k |-> "obj", type |-> Str("FunctionDeclaration"), id |-> Identifier("f"),
   params |-> Arr(<<>>), body |-> BlockStatement(body)]
ReturnStatement(argument) ==
  [k |-> "obj", type |-> Str("ReturnStatement"), argument |-> argument]
AwaitExpression(argument) ==
  [k |-> "obj", type |-> Str("AwaitExpression"), argument |-> argument]
SwitchStatement(discriminant, consequent) ==
  [k |-> "obj", type |-> Str("SwitchStatement"), discriminant |-> discriminant,
   cases |-> Arr(<<[k |-> "obj", type |-> Str("SwitchCase"), test |-> Null,
                    consequent |-> Arr(consequent)]>>)]

---------------------------------------------------------------------------
(* AST utilities *)

isProcessEnvNodeEnv(node) ==
  IF ~Truthy(node) THEN FALSE
  ELSE IF Get(node, "type") # Str("MemberExpression") THEN FALSE
  ELSE
    LET property == Get(node, "property")
        propName == JsAnd(property, JsOr(Get(property, "name"), Get(property, "value")))
        obj == Get(node, "object")
    IN IF propName # Str("NODE_ENV") THEN FALSE
       ELSE IF ~(Truthy(obj) /\ Get(obj, "type") = Str("MemberExpression")) THEN FALSE
       ELSE
         LET oprop == Get(obj, "property")
             objProp == JsAnd(oprop, JsOr(Get(oprop, "name"), Get(oprop, "value")))
             root == Get(obj, "object")
         IN IF objProp # Str("env") THEN FALSE
            ELSE Truthy(root) /\ Get(root, "name") = Str("process")

\* the node types whose value counts as a string literal
stringLiteralTypes ==
  IF impl = "cli" THEN {Str("Literal")} ELSE {Str("Literal"), Str("StringLiteral")}

\* getString of evaluateEnvCondition: the string, or null
getString(n) ==
  IF Get(n, "type") \in stringLiteralTypes /\ IsStr(Get(n, "value"))
  THEN Get(n, "value") ELSE Null

\* extractString of findDependencies: the string, or null
extractString(n) ==
  IF ~Truthy(n) THEN Null
  ELSE IF Get(n, "type") \in stringLiteralTypes /\ IsStr(Get(n, "value"))
  THEN Get(n, "value") ELSE Null

\* the operators evaluateEnvCondition decides
equalityOperators == {Str("==="), Str("==")}
inequalityOperators == {Str("!=="), Str("!=")}

\* variant: only the strict operators are decided
evaluateEnvCondition_StrictOnly(node) ==
  IF ~Truthy(node) \/ Get(node, "type") # Str("BinaryExpression") THEN Null
  ELSE
    LET left == Get(node, "left")
        right == Get(node, "right")
        strSide == IF isProcessEnvNodeEnv(left) THEN getString(right)
                   ELSE IF isProcessEnvNodeEnv(right) THEN getString(left) ELSE Null
        operator == Get(node, "operator")
    IN IF strSide # Null
       THEN IF operator = Str("===") THEN Bool(strSide = Str("production"))
            ELSE IF operator = Str("!==") THEN Bool(strSide # Str("production"))
            ELSE Null
       ELSE Null

\* variant: a literal the evaluator does not know leaves the test undecided
evaluateEnvCondition_KnownLiterals(node) ==
  IF ~Truthy(node) \/ Get(node, "type") # Str("BinaryExpression") THEN Null
  ELSE
    LET left == Get(node, "left")
        right == Get(node, "right")
        strSide == IF isProcessEnvNodeEnv(left) THEN getString(right)
                   ELSE IF isProcessEnvNodeEnv(right) THEN getString(left) ELSE Null
        operator == Get(node, "operator")
    IN IF strSide \in {Str("production"), Str("development")}
       THEN IF operator \in equalityOperators THEN Bool(strSide = Str("production"))
            ELSE IF operator \in inequalityOperators THEN Bool(strSide # Str("production"))
            ELSE Null
       ELSE Null

\* true, false or null
evaluateEnvCondition(node) ==
  IF ~Truthy(node) \/ Get(node, "type") # Str("BinaryExpression") THEN Null
  ELSE
    LET left == Get(node, "left")
        right == Get(node, "right")
        envSide == IF isProcessEnvNodeEnv(left) THEN left
                   ELSE IF isProcessEnvNodeEnv(right) THEN right ELSE Null
        strSide == IF isProcessEnvNodeEnv(left) THEN getString(right)
                   ELSE IF isProcessEnvNodeEnv(right) THEN getString(left) ELSE Null
        operator == Get(node, "operator")
    IN IF Truthy(envSide) /\ strSide # Null
       THEN IF operator \in equalityOperators THEN Bool(strSide = Str("production"))
            ELSE IF operator \in inequalityOperators THEN Bool(strSide # Str("production"))
            ELSE Null
       ELSE Null

\* the property names findDependencies recurses into
keysToVisit ==
  {"body", "declarations", "init", "expression", "callee", "arguments",
   "consequent", "alternate", "test", "left", "right", "source", "specifiers",
   "exported", "local", "imported", "program",
   "elements", "properties", "value", "block", "handler", "finalizer"}
  \cup (IF impl = "cli" THEN {} ELSE {"statements"})

moduleDeclarationTypes ==
  {Str("ImportDeclaration"), Str("ExportNamedDeclaration"), Str("ExportAllDeclaration")}

\* what one node adds to deps by itself
ownDependencies(node) ==
  LET type == Get(node, "type")
      source == Get(node, "source")
      callee == Get(node, "callee")
      arguments == Get(node, "arguments")
      isRequire == /\ Truthy(callee)
                   /\ Get(callee, "type") = Str("Identifier")
                   /\ Get(callee, "name") = Str("require")
      esm == IF type \in moduleDeclarationTypes /\ Truthy(source)
                /\ Truthy(extractString(source))
             THEN {extractString(source).s} ELSE {}
      dynamic == IF type = Str("ImportExpression") /\ Truthy(extractString(source))
                 THEN {extractString(source).s} ELSE {}
      cjs == IF /\ type = Str("CallExpression")
                /\ isRequire
                /\ IsArray(arguments)
                /\ Len(arguments.items) > 0
                /\ Truthy(extractString(arguments.items[1]))
             THEN {extractString(arguments.items[1]).s} ELSE {}
  IN esm \cup dynamic \cup cjs

\* the Set deps that findDependencies(node, deps) fills, starting empty
RECURSIVE findDependencies(_)
findDependencies(node) ==
  IF ~Truthy(node) \/ ~IsObject(node) THEN {}
  ELSE IF IsArray(node)
  THEN UNION {findDependencies(node.items[i]) : i \in DOMAIN node.items}
  ELSE
    LET type == Get(node, "type")
        isProd == IF type \in {Str("IfStatement"), Str("ConditionalExpression")}
                  THEN evaluateEnvCondition(Get(node, "test")) ELSE Null
        consequent == Get(node, "consequent")
        alternate == Get(node, "alternate")
    IN IF type = Str("IfStatement") /\ isProd = Bool(TRUE)
       THEN findDependencies(consequent)
       ELSE IF type = Str("IfStatement") /\ isProd = Bool(FALSE)
       THEN (IF Truthy(alternate) THEN findDependencies(alternate) ELSE {})
       ELSE IF type = Str("ConditionalExpression") /\ isProd = Bool(TRUE)
       THEN findDependencies(consequent)
       ELSE IF type = Str("ConditionalExpression") /\ isProd = Bool(FALSE)
       THEN findDependencies(alternate)
       ELSE ownDependencies(node)
            \cup UNION {IF Truthy(Get(node, key)) THEN findDependencies(Get(node, key)) ELSE {}
                        : key \in keysToVisit}

---------------------------------------------------------------------------
(* Extraction: the modules handed to the walker *)

\* the string literal node types each parser's tree can hold
parserLiteralTypes == IF impl = "cli" THEN {"Literal"} ELSE {"Literal", "StringLiteral"}

require(litType, s) == CallExpression(Identifier("require"), <<Literal(litType, s)>>)

processEnv == MemberExpression(Identifier("process"), Identifier("env"), FALSE)

\* process.env.NODE_ENV and process.env["NODE_ENV"]
envReads ==
  {MemberExpression(processEnv, Identifier("NODE_ENV"), FALSE),
   MemberExpression(processEnv, Literal("Literal", "NODE_ENV"), TRUE)}

\* reads that are not process.env.NODE_ENV: env.NODE_ENV, process.env.DEBUG,
\* config.env.NODE_ENV, and process.env[NODE_ENV] with a variable NODE_ENV
otherReads ==
  {MemberExpression(Identifier("env"), Identifier("NODE_ENV"), FALSE),
   MemberExpression(processEnv, Identifier("DEBUG"), FALSE),
   MemberExpression(MemberExpression(Identifier("config"), Identifier("env"), FALSE),
                    Identifier("NODE_ENV"), FALSE),
   MemberExpression(processEnv, Identifier("NODE_ENV"), TRUE)}

comparedLiterals == {"production", "development", "test"}
comparisonOperators == {"===", "==", "!==", "!=", "<"}

\* <read> <op> "<literal>" in either operand order
comparisons(reads, operators) ==
  UNION {{BinaryExpression(op, r, Literal(t, lit)), BinaryExpression(op, Literal(t, lit), r)}
         : <<r, op, lit, t>> \in reads \X operators \X comparedLiterals \X parserLiteralTypes}

sampleTests ==
  comparisons(envReads, comparisonOperators)
  \cup comparisons(otherReads, {"!==", "==="})
  \cup {Identifier("cond"),
        BinaryExpression("===", MemberExpression(processEnv, Identifier("NODE_ENV"), FALSE),
                         Identifier("mode")),
        BinaryExpression("!==", MemberExpression(processEnv, Identifier("NODE_ENV"), FALSE),
                         NumLiteral),
        LogicalExpression("&&",
          BinaryExpression("!==", MemberExpression(processEnv, Identifier("NODE_ENV"), FALSE),
                           Literal("Literal", "production")),
          Identifier("cond"))}

\* statements used as the branches of an if statement
sampleConsequents ==
  {ExpressionStatement(require(t, "dev-only")) : t \in parserLiteralTypes}
  \cup {BlockStatement(<<ExpressionStatement(require("Literal", "dev-only")),
                         ExpressionStatement(ImportExpression(Literal("Literal", "shared")))>>)}
sampleAlternates ==
  {Null,
   ExpressionStatement(require("Literal", "prod-only")),
   BlockStatement(<<ExpressionStatement(require("Literal", "prod-only")),
                    ExpressionStatement(require("Literal", "shared"))>>)}

\* one require or import(), placed where a module may hold it
samplePlacements ==
  {Program(<<statement>>) :
     statement \in
       UNION {{ExpressionStatement(call),
               VariableDeclaration(call),
               ExpressionStatement(CallExpression(Identifier("f"), <<call>>)),
               ExpressionStatement(MemberExpression(call, Identifier("b"), FALSE)),
               ExpressionStatement(AwaitExpression(call)),
               FunctionDeclaration(<<ReturnStatement(call)>>),
               FunctionDeclaration(<<ExpressionStatement(call)>>),
               ExportedDeclaration(VariableDeclaration(call)),
               SwitchStatement(Identifier("x"), <<ExpressionStatement(call)>>)}
              : call \in {require("Literal", "a"), ImportExpression(Literal("Literal", "a"))}}}

samplePrograms ==
  samplePlacements \cup
  {Program(<<IfStatement(t, c, a)>>)
     : <<t, c, a>> \in sampleTests \X sampleConsequents \X sampleAlternates}
  \cup {Program(<<ExpressionStatement(
                    ConditionalExpression(t, require("Literal", "a"), require("Literal", "b")))>>)
     : t \in sampleTests}
  \cup {Program(<<ImportDeclaration(Literal("Literal", "./a")),
                  ExportAllDeclaration(Literal("Literal", "./b")),
                  ExportNamedDeclaration(Null)>>)}


---------------------------------------------------------------------------
(* The world outside the program: the CDN, the registry, the file system *)

JSDELIVR_BASE == "https://cdn.jsdelivr.net/npm/"

\* a JavaScript object with the given own properties
Obj(props) == [k |-> "obj"] @@ props

\* package.json of each published package, by the name it is requested under
registry ==
  [p |-> Obj([name |-> Str("p"), version |-> Str("1"), main |-> Str("main.js")]),
   q |-> Obj([name |-> Str("q"), version |-> Str("2"),
              exports |-> Obj(("." :> Obj([import |-> Str("./esm.js"),
                                           default |-> Str("./q.js")]))
                              @@ ("./s" :> Str("./dist/s.js")))])]

\* the files the CDN serves
cdnFiles ==
  {JSDELIVR_BASE \o f : f \in {"p@1/main.js", "p@1/index.js", "p@1/a.js", "p@1/b.js",
                               "q@2/q.js", "q@2/index.js", "q@2/dist/s.js"}}

\* the regular files of the local project, and those that cannot be read
localFiles == {"/w/index.js", "/w/a.js", "/w/b.js"}
unreadableFiles == {"/w/b.js"}

---------------------------------------------------------------------------
(* Package resolution *)

NODE_BUILTINS ==
  {"fs", "path", "os", "crypto", "stream", "http", "https", "zlib", "url", "util",
   "buffer", "events", "assert", "child_process", "process", "net", "tls", "dgram",
   "dns", "perf_hooks", "worker_threads"}
  \cup (IF impl = "cli" THEN {} ELSE {"node:fs", "node:path", "node:process"})

parseBareSpecifier(specifier) ==
  LET parts == split(specifier, "/")
  IN IF startsWith(specifier, "@")
     THEN [pkgName |-> parts[1] \o "/" \o (IF Len(parts) >= 2 THEN parts[2] ELSE ""),
           subpath |-> join(slice(parts, 2), "/")]
     ELSE [pkgName |-> parts[1], subpath |-> join(slice(parts, 1), "/")]

\* variant: import is preferred to default
conditions_ImportFirst == <<"production", "node", "require", "import", "default", "browser">>

\* the export conditions, most preferred first
conditions == <<"production", "node", "require", "default", "import", "browser">>

\* a string, or null
RECURSIVE resolveExports(_)
resolveExports(exp) ==
  IF IsStr(exp) THEN exp
  ELSE IF IsObject(exp)
  THEN LET present == {i \in 1..Len(conditions) : conditions[i] \in DOMAIN exp}
       IN IF present = {} THEN Null
          ELSE resolveExports(exp[conditions[CHOOSE i \in present : \A j \in present : i <= j]])
  ELSE Null

\* variant: the raw subpath comes before the export-map target
packageEntries_RawFirst(subpath, pkgObj) ==
  LET exports == Get(pkgObj, "exports")
      keep(v) == IF Truthy(v) THEN <<v>> ELSE <<>>
  IN IF subpath # ""
     THEN LET exportKey == "./" \o subpath
              target == IF Truthy(exports)
                        THEN JsOr(Get(exports, exportKey), Get(exports, exportKey \o ".js"))
                        ELSE Undefined
              subEntry == IF Truthy(target) THEN resolveExports(target) ELSE Null
          IN <<Str(subpath)>> \o keep(subEntry)
     ELSE LET resolved == IF Truthy(exports)
                          THEN resolveExports(JsOr(Get(exports, "."), exports))
                          ELSE Null
          IN keep(resolved) \o keep(Get(pkgObj, "main")) \o keep(Get(pkgObj, "module"))
             \o <<Str("index.js")>>

\* the array entries of resolvePackageUrl before it is mapped to URLs
packageEntries(subpath, pkgObj) ==
  LET exports == Get(pkgObj, "exports")
      keep(v) == IF Truthy(v) THEN <<v>> ELSE <<>>
  IN IF subpath # ""
     THEN LET exportKey == "./" \o subpath
              target == IF Truthy(exports)
                        THEN JsOr(Get(exports, exportKey), Get(exports, exportKey \o ".js"))
                        ELSE Undefined
              subEntry == IF Truthy(target) THEN resolveExports(target) ELSE Null
          IN keep(subEntry) \o <<Str(subpath)>>
     ELSE LET resolved == IF Truthy(exports)
                          THEN resolveExports(JsOr(Get(exports, "."), exports))
                          ELSE Null
          IN keep(resolved) \o keep(Get(pkgObj, "main")) \o keep(Get(pkgObj, "module"))
             \o <<Str("index.js")>>

\* Array.from(new Set(entries)): first occurrences, in order
RECURSIVE uniqueInOrder(_, _)
uniqueInOrder(entries, seen) ==
  IF Len(entries) = 0 THEN <<>>
  ELSE IF Head(entries) \in seen THEN uniqueInOrder(Tail(entries), seen)
  ELSE <<Head(entries)>> \o uniqueInOrder(Tail(entries), seen \cup {Head(entries)})

\* the URL of one entry under pkgBase
entryUrl(entry, pkgBase) ==
  urlHref(IF startsWith(entry, "./") THEN SubSeq(entry, 3, Len(entry)) ELSE entry, pkgBase)

\* the manifest URL resolvePackageUrl fetches
manifestUrl(specifier) ==
  JSDELIVR_BASE \o parseBareSpecifier(specifier).pkgName \o "/package.json"

\* targetUrls of resolvePackageUrl once the manifest fetch has settled with
\* pkgObj (res.ok) or without one (Null)
packageTargetUrls(specifier, fetched) ==
  LET parsed == parseBareSpecifier(specifier)
      pkgObj == IF fetched = Null THEN Obj(<<>>) ELSE fetched
      pkgBase == IF fetched = Null THEN JSDELIVR_BASE \o parsed.pkgName \o "/"
                 ELSE JSDELIVR_BASE \o fetched.name.s \o "@" \o fetched.version.s \o "/"
      entries == uniqueInOrder(packageEntries(parsed.subpath, pkgObj), {})
  IN [i \in 1..Len(entries) |-> entryUrl(entries[i].s, pkgBase)]

isLocalFile(url) == ~startsWith(url, "http")

\* resolveUrl up to its call of resolvePackageUrl: null, an array of
\* candidates, or the package specifier still to be resolved
resolveUrl(url, baseUrl) ==
  LET builtin == url \in NODE_BUILTINS \/ startsWith(url, "node:")
      absolute == startsWith(url, "http")
      relative == startsWith(url, ".") \/ startsWith(url, "/")
      joined == IF baseUrl = Null THEN Arr(<<url>>)
                ELSE IF impl # "cli" /\ isLocalFile(baseUrl.s)
                THEN Arr(<<pathResolve(pathDirname(baseUrl.s), url)>>)
                ELSE Arr(<<urlHref(url, baseUrl.s)>>)
      package == [k |-> "package", specifier |-> url]
  IN IF impl = "cli"
     THEN IF absolute THEN Arr(<<url>>)
          ELSE IF builtin THEN Null
          ELSE IF relative THEN joined
          ELSE package
     ELSE IF builtin THEN Null
          ELSE IF absolute THEN Arr(<<url>>)
          ELSE IF relative THEN joined
          ELSE package

---------------------------------------------------------------------------
(* Fetching *)

\* url.match(/\.(js|mjs|cjs|ts)$/)
looksLikeSource(url) ==
  endsWith(url, ".js") \/ endsWith(url, ".mjs") \/ endsWith(url, ".cjs") \/ endsWith(url, ".ts")

localExtensions == <<"", ".js", ".mjs", ".cjs", ".ts", "/index.js">>
remoteSuffixes == <<".js", ".mjs", "/index.js">>

\* the URLs fetchFile requests for one candidate, in order
attemptsFor(url) ==
  <<url>> \o (IF looksLikeSource(url) THEN <<>>
              ELSE [i \in 1..Len(remoteSuffixes) |-> url \o remoteSuffixes[i]])

\* the URLs fetchFile requests for a candidate list, in order, one after the
\* other until one succeeds
RECURSIVE attempts(_)
attempts(urls) ==
  IF Len(urls) = 0 THEN <<>> ELSE attemptsFor(Head(urls)) \o attempts(Tail(urls))

\* tryFetch(u) can answer with a response / can answer null
canSucceed(u) == u \in cdnFiles
canFail(u) == u \notin cdnFiles \/ network = "flaky"

NotFound == [k |-> "throw"]
Fetched(finalUrl, isLocal) == [k |-> "obj", finalUrl |-> finalUrl, isLocal |-> isLocal]

\* variant: a success does not end the loop
RECURSIVE remoteOutcomes_LastWins(_)
remoteOutcomes_LastWins(tries) ==
  IF Len(tries) = 0 THEN {NotFound}
  ELSE (IF canSucceed(Head(tries)) THEN {Fetched(Head(tries), FALSE)} ELSE {})
       \cup remoteOutcomes_LastWins(Tail(tries))

\* the ways the remote branch of fetchFile can end, requesting tries in order;
\* the CDN answers at the URL requested, so res.url is that URL
RECURSIVE remoteOutcomes(_)
remoteOutcomes(tries) ==
  IF Len(tries) = 0 THEN {NotFound}
  ELSE (IF canSucceed(Head(tries)) THEN {Fetched(Head(tries), FALSE)} ELSE {})
       \cup (IF canFail(Head(tries)) THEN remoteOutcomes(Tail(tries)) ELSE {})

\* the way the local branch of fetchFile ends for filePath, trying the
\* extensions from the i-th on
RECURSIVE localOutcome(_, _)
localOutcome(filePath, i) ==
  IF i > Len(localExtensions) THEN NotFound
  ELSE LET tryPath == filePath \o localExtensions[i]
       IN IF tryPath \in localFiles
          THEN (IF tryPath \in unreadableFiles THEN Null ELSE Fetched(tryPath, TRUE))
          ELSE localOutcome(filePath, i + 1)

\* every way fetchFile(urls) can end: a result, null, or the thrown error
fetchFile(urls) ==
  IF impl # "cli" /\ isLocalFile(urls[1])
  THEN {localOutcome(urls[1], 1)}
  ELSE remoteOutcomes(attempts(urls))

---------------------------------------------------------------------------
(* Module texts: what the CDN or the file system may hold at a location *)

Text(program) == [k |-> "text", program |-> program]
\* a text no parser accepts
Garbage == [k |-> "garbage"]

requireStatement(s) == ExpressionStatement(require("Literal", s))

nodeEnv == MemberExpression(processEnv, Identifier("NODE_ENV"), FALSE)

moduleTexts ==
  {Text(Program(<<>>)),
   Text(Program(<<ImportDeclaration(Literal("Literal", "./a")),
                  ImportDeclaration(Literal("Literal", "./a.js"))>>)),
   Text(Program(<<requireStatement("./b.js"), requireStatement("fs")>>)),
   Text(Program(<<IfStatement(BinaryExpression("!==", nodeEnv, Literal("Literal", "production")),
                              BlockStatement(<<requireStatement("dev-only")>>), Null),
                  requireStatement("q/s")>>)),
   Text(Program(<<requireStatement("p"), requireStatement("./missing")>>)),
   Text(Program(<<requireStatement("http"), requireStatement("node:fs")>>)),
   Text(Program(<<ExportAllDeclaration(Literal("Literal", "./main.js"))>>)),
   Text(Program(<<requireStatement("q"), requireStatement("./a.js")>>)),
   Garbage}

\* acorn.parse / parseSync: the program, or Null when the parser throws
parse(code) == IF code.k = "text" THEN code.program ELSE Null

\* the entry specifiers a run may be started with
entrySpecifiers == {"p", "/w/index.js", "fs"}

\* the most tasks one run of the model starts
MaxTasks == 5

---------------------------------------------------------------------------
(* The orchestrator: enqueueFile and run *)

EmptyMap == [s \in {} |-> <<>>]

RECURSIVE setToSeq(_)
setToSeq(S) ==
  IF S = {} THEN <<>>
  ELSE LET x == CHOOSE y \in S : TRUE IN <<x>> \o setToSeq(S \ {x})

\* the ways the fetch of a manifest can settle: the parsed package.json, or
\* Null for a response that is not ok or a fetch that throws
manifestOutcomes(specifier) ==
  LET pkgName == parseBareSpecifier(specifier).pkgName
  IN (IF pkgName \in DOMAIN registry THEN {registry[pkgName]} ELSE {})
     \cup (IF pkgName \notin DOMAIN registry \/ network = "flaky" THEN {Null} ELSE {})

\* enqueueFile(url, baseUrl) up to its first suspension: the task awaits
\* resolveUrl, which has either settled already or awaits the manifest
startTask(url, baseUrl, parent) ==
  LET r == resolveUrl(url, baseUrl)
      cached == r.k = "package" /\ url \in DOMAIN pkgResolveCache
  IN [url |-> url, baseUrl |-> baseUrl, parent |-> parent,
      pc |-> IF r.k = "package" /\ ~cached THEN "manifest" ELSE "resolved",
      targetUrls |-> IF r.k # "package" THEN r
                     ELSE IF cached THEN Arr(pkgResolveCache[url]) ELSE Undefined,
      finalUrl |-> "", outcome |-> "pending",
      \* for the claims: parsedUrls as it was when the task passed the check
      \* of its primary URL, and the dependencies the task extracted
      parsedAtCheck |-> {}, deps |-> {}]

\* fetch(url) of resolvePackageUrl: the manifests the tasks just started
\* request, those whose specifier was not in the cache when they started
manifestRequests(started) ==
  LET waiting == SelectSeq(started, LAMBDA t : t.pc = "manifest")
  IN [j \in 1..Len(waiting) |-> manifestUrl(waiting[j].url)]

\* the task is over: how it ended
settled(t, outcome) == [t EXCEPT !.pc = "settled", !.outcome = outcome]

\* variant: the callback is called by every task that ends
Finally_NoZeroCheck(started) ==
  /\ activeTasks' = activeTasks + started - 1
  /\ completions' = IF onQueueEmpty # Null THEN completions + 1 ELSE completions

\* variant: the tasks started by the body are not counted
Finally_ChildrenUncounted(started) ==
  /\ activeTasks' = activeTasks - 1
  /\ completions' = IF activeTasks' = 0 /\ onQueueEmpty # Null
                    THEN completions + 1 ELSE completions

\* variant: the counter is tested before it is decremented
Finally_CheckBeforeDecrement(started) ==
  /\ activeTasks' = activeTasks + started - 1
  /\ completions' = IF activeTasks + started = 0 /\ onQueueEmpty # Null
                    THEN completions + 1 ELSE completions

\* finally { activeTasks--; if (activeTasks === 0 && onQueueEmpty) onQueueEmpty(); }
\* after the task body started `started` further tasks
Finally(started) ==
  /\ activeTasks' = activeTasks + started - 1
  /\ completions' = IF activeTasks' = 0 /\ onQueueEmpty # Null
                    THEN completions + 1 ELSE completions

\* run(): enqueueFile(targetPkg, null), then the promise executor
RunStart ==
  /\ runPc = "start"
  /\ tasks' = <<startTask(targetPkg, Null, 0)>>
  /\ manifestFetches' = manifestFetches \o manifestRequests(tasks')
  /\ activeTasks' = activeTasks + 1
  /\ IF activeTasks' = 0
     THEN completions' = completions + 1 /\ UNCHANGED onQueueEmpty
     ELSE onQueueEmpty' = Str("resolve") /\ UNCHANGED completions
  /\ runPc' = "awaiting"
  /\ UNCHANGED <<impl, network, targetPkg, parsedUrls, bundleParts, hasError,
                 pkgResolveCache, exitCode, stages, exVars, rsVars>>

\* resolvePackageUrl after await fetch(url): the cache is filled and
\* resolveUrl settles with targetUrls
ManifestSettle(i) ==
  /\ tasks[i].pc = "manifest"
  /\ \E fetched \in manifestOutcomes(tasks[i].url) :
       LET targetUrls == packageTargetUrls(tasks[i].url, fetched)
       IN /\ pkgResolveCache' = (tasks[i].url :> targetUrls) @@ pkgResolveCache
          /\ tasks' = [tasks EXCEPT ![i].pc = "resolved",
                                    ![i].targetUrls = Arr(targetUrls)]
  /\ UNCHANGED <<impl, network, targetPkg, runPc, parsedUrls, bundleParts, activeTasks,
                 onQueueEmpty, completions, hasError, exitCode, stages,
                 manifestFetches, exVars, rsVars>>

\* variant: nothing is ever found visited
alreadyParsed_Never(url) == FALSE

\* variant: only local files are found visited
alreadyParsed_LocalOnly(url) == url \in parsedUrls /\ isLocalFile(url)

\* parsedUrls.has(url)
alreadyParsed(url) == url \in parsedUrls

\* enqueueFile after await resolveUrl: no candidates, primary already
\* visited, or fetchFile is called
Resume(i) ==
  /\ tasks[i].pc = "resolved"
  /\ LET t == tasks[i]
     IN IF ~Truthy(t.targetUrls) \/ Len(t.targetUrls.items) = 0
        THEN /\ tasks' = [tasks EXCEPT ![i] = settled(t, "noCandidates")]
             /\ Finally(0)
        ELSE IF alreadyParsed(t.targetUrls.items[1])
        THEN /\ tasks' = [tasks EXCEPT ![i] = settled(t, "visited")]
             /\ Finally(0)
        ELSE /\ tasks' = [tasks EXCEPT ![i].pc = "fetching",
                                       ![i].parsedAtCheck = parsedUrls]
             /\ UNCHANGED <<activeTasks, completions>>
  /\ UNCHANGED <<impl, network, targetPkg, runPc, parsedUrls, bundleParts, onQueueEmpty,
                 hasError, pkgResolveCache, exitCode, stages, manifestFetches, exVars, rsVars>>

\* the tasks started by the loop over deps, in order
children(deps, finalUrl, parent) ==
  LET order == setToSeq(deps)
  IN [j \in 1..Len(order) |-> startTask(order[j], Str(finalUrl), parent)]

\* variant: a failed fetch is tried again
FetchFailed_Retries(i) ==
  /\ tasks' = [tasks EXCEPT ![i].pc = "resolved"]
  /\ UNCHANGED <<parsedUrls, bundleParts, hasError, activeTasks, completions,
                 manifestFetches>>

\* catch (e) { log.error(` Failed to fetch: ${url}`); return; }
FetchFailed(i) ==
  /\ tasks' = [tasks EXCEPT ![i] = settled(tasks[i], "fetchFailed")]
  /\ Finally(0)
  /\ UNCHANGED <<parsedUrls, bundleParts, hasError, manifestFetches>>

\* variant: the throw leaves the task without the cleanup step
FetchedNull_SkipsCleanup(i) ==
  /\ tasks' = [tasks EXCEPT ![i] = settled(tasks[i], "threw")]
  /\ hasError' = TRUE
  /\ UNCHANGED <<parsedUrls, bundleParts, manifestFetches, activeTasks, completions>>

\* fetchFile returned null: destructuring it throws, the outer catch runs
FetchedNull(i) ==
  /\ tasks' = [tasks EXCEPT ![i] = settled(tasks[i], "threw")]
  /\ hasError' = TRUE
  /\ Finally(0)
  /\ UNCHANGED <<parsedUrls, bundleParts, manifestFetches>>

\* variant: the text is parsed before it is appended, and a text that does
\* not parse is not appended
Bundle_ParseFirst(i, finalUrl, code) ==
  LET t == tasks[i]
      primaryUrl == t.targetUrls.items[1]
      program == parse(code)
      deps == IF Truthy(program) THEN findDependencies(program) ELSE {}
      me == [t EXCEPT !.finalUrl = finalUrl, !.deps = deps]
  IN /\ Len(tasks) + Cardinality(deps) <= MaxTasks
     /\ parsedUrls' = parsedUrls \cup {finalUrl, primaryUrl}
     /\ bundleParts' = IF program = Null THEN bundleParts ELSE Append(bundleParts, finalUrl)
     /\ tasks' = [tasks EXCEPT ![i] =
                    settled(me, IF program = Null THEN "parseFailed" ELSE "expanded")]
                 \o children(deps, finalUrl, i)
     /\ manifestFetches' = manifestFetches \o manifestRequests(children(deps, finalUrl, i))
     /\ Finally(Cardinality(deps))
     /\ UNCHANGED hasError

\* variant: the text is put at the front of the bundle
Bundle_AtFront(i, finalUrl, code) ==
  LET t == tasks[i]
      primaryUrl == t.targetUrls.items[1]
      program == parse(code)
      deps == IF Truthy(program) THEN findDependencies(program) ELSE {}
      me == [t EXCEPT !.finalUrl = finalUrl, !.deps = deps]
  IN /\ Len(tasks) + Cardinality(deps) <= MaxTasks
     /\ parsedUrls' = parsedUrls \cup {finalUrl, primaryUrl}
     /\ bundleParts' = <<finalUrl>> \o bundleParts
     /\ tasks' = [tasks EXCEPT ![i] =
                    settled(me, IF program = Null THEN "parseFailed" ELSE "expanded")]
                 \o children(deps, finalUrl, i)
     /\ manifestFetches' = manifestFetches \o manifestRequests(children(deps, finalUrl, i))
     /\ Finally(Cardinality(deps))
     /\ UNCHANGED hasError

\* the location is marked, its text appended and parsed, and every
\* dependency found is enqueued
Bundle(i, finalUrl, code) ==
  LET t == tasks[i]
      primaryUrl == t.targetUrls.items[1]
      program == parse(code)
      deps == IF Truthy(program) THEN findDependencies(program) ELSE {}
      me == [t EXCEPT !.finalUrl = finalUrl, !.deps = deps]
  IN /\ Len(tasks) + Cardinality(deps) <= MaxTasks
     /\ parsedUrls' = parsedUrls \cup {finalUrl, primaryUrl}
     /\ bundleParts' = Append(bundleParts, finalUrl)
     /\ tasks' = [tasks EXCEPT ![i] =
                    settled(me, IF program = Null THEN "parseFailed" ELSE "expanded")]
                 \o children(deps, finalUrl, i)
     /\ manifestFetches' = manifestFetches \o manifestRequests(children(deps, finalUrl, i))
     /\ Finally(Cardinality(deps))
     /\ UNCHANGED hasError

\* variant: the check after the fetch is missing, the text is appended again
DuplicateFinal_Appends(i, finalUrl) ==
  \E code \in moduleTexts : Bundle(i, finalUrl, code)

\* variant: the check after the fetch only keeps the text out of the bundle,
\* the text is still parsed and its dependencies enqueued
DuplicateFinal_Expands(i, finalUrl) ==
  \E code \in moduleTexts :
    LET program == parse(code)
        deps == IF Truthy(program) THEN findDependencies(program) ELSE {}
        me == [tasks[i] EXCEPT !.finalUrl = finalUrl, !.deps = deps]
    IN /\ Len(tasks) + Cardinality(deps) <= MaxTasks
       /\ tasks' = [tasks EXCEPT ![i] = settled(me, "duplicate")]
                   \o children(deps, finalUrl, i)
       /\ manifestFetches' = manifestFetches \o manifestRequests(children(deps, finalUrl, i))
       /\ Finally(Cardinality(deps))
       /\ UNCHANGED <<parsedUrls, bundleParts, hasError>>

\* if (parsedUrls.has(finalUrl)) return;
DuplicateFinal(i, finalUrl) ==
  /\ tasks' = [tasks EXCEPT ![i] = settled([tasks[i] EXCEPT !.finalUrl = finalUrl], "duplicate")]
  /\ Finally(0)
  /\ UNCHANGED <<parsedUrls, bundleParts, hasError, manifestFetches>>

\* enqueueFile after await fetchFile, to the end of the task
FetchSettle(i) ==
  /\ tasks[i].pc = "fetching"
  /\ \E fetchResult \in fetchFile(tasks[i].targetUrls.items) :
       IF fetchResult.k = "throw" THEN FetchFailed(i)
       ELSE IF fetchResult = Null THEN FetchedNull(i)
       ELSE IF alreadyParsed(fetchResult.finalUrl)
       THEN DuplicateFinal(i, fetchResult.finalUrl)
       ELSE \E code \in moduleTexts : Bundle(i, fetchResult.finalUrl, code)
  /\ UNCHANGED <<impl, network, targetPkg, runPc, onQueueEmpty, pkgResolveCache, exitCode, stages,
                 exVars, rsVars>>

\* variant: an empty bundle is minified and reported like any other
RunFinish_NoEmptyCheck ==
  /\ runPc = "awaiting"
  /\ completions > 0
  /\ runPc' = "exited"
  /\ exitCode' = 0 /\ stages' = <<"minify", "report">>
  /\ UNCHANGED <<impl, network, targetPkg, tasks, parsedUrls, bundleParts, activeTasks,
                 onQueueEmpty, completions, hasError, pkgResolveCache, manifestFetches,
                 exVars, rsVars>>

\* run() after the awaited promise resolved: process.exit(1) on an empty
\* bundle; else the bundle is minified, the report printed, and run returns
RunFinish ==
  /\ runPc = "awaiting"
  /\ completions > 0
  /\ runPc' = "exited"
  /\ IF Len(bundleParts) = 0
     THEN exitCode' = 1 /\ UNCHANGED stages
     ELSE exitCode' = 0 /\ stages' = <<"minify", "report">>
  /\ UNCHANGED <<impl, network, targetPkg, tasks, parsedUrls, bundleParts, activeTasks,
                 onQueueEmpty, completions, hasError, pkgResolveCache, manifestFetches,
                 exVars, rsVars>>

\* neither resolveExports nor resolvePackageUrl is called on its own
RsIdle ==
  /\ rsExp = Undefined /\ rsSpecifier = "" /\ rsManifest = Null /\ rsBaseUrl = Null
  /\ rsResolved = Undefined /\ rsTargetUrls = <<>> /\ rsPc = "idle"

Init ==
  /\ impl \in Impls
  /\ network \in {"reliable", "flaky"}
  /\ targetPkg \in entrySpecifiers
  /\ runPc = "start"
  /\ tasks = <<>>
  /\ parsedUrls = {}
  /\ bundleParts = <<>>
  /\ activeTasks = 0
  /\ onQueueEmpty = Null
  /\ completions = 0
  /\ hasError = FALSE
  /\ pkgResolveCache = EmptyMap
  /\ exitCode = -1
  /\ stages = <<>>
  /\ manifestFetches = <<>>
  /\ exNode = Null /\ exDeps = {} /\ exPc = "idle"
  /\ RsIdle

Next ==
  \/ RunStart
  \/ \E i \in 1..Len(tasks) : ManifestSettle(i)
  \/ \E i \in 1..Len(tasks) : Resume(i)
  \/ \E i \in 1..Len(tasks) : FetchSettle(i)
  \/ RunFinish

runVars == <<network, targetPkg, runPc, tasks, parsedUrls, bundleParts, activeTasks,
             onQueueEmpty, completions, hasError, pkgResolveCache, exitCode, stages,
             manifestFetches>>

vars == <<impl, runVars, exVars, rsVars>>

Spec == Init /\ [][Next]_vars

\* task i awaits a fetch: that of a manifest, or fetchFile
awaitsFetch(i) == i \in DOMAIN tasks /\ tasks[i].pc \in {"manifest", "fetching"}

\* every fetch settles in the end, and a continuation that is ready to run
\* (the start of run, a task after resolveUrl settled, run after the promise
\* resolved) is run by the event loop
SpecLive ==
  /\ Spec
  /\ \A i \in 1..MaxTasks : []<>(~awaitsFetch(i))
  /\ WF_vars(RunStart)
  /\ WF_vars(\E i \in 1..Len(tasks) : Resume(i))
  /\ WF_vars(RunFinish)

---------------------------------------------------------------------------
(* Extraction alone: one module is parsed and walked *)

\* run() has not been called
RunIdle ==
  /\ network = "reliable" /\ targetPkg = "" /\ runPc = "idle" /\ tasks = <<>>
  /\ parsedUrls = {} /\ bundleParts = <<>> /\ activeTasks = 0 /\ onQueueEmpty = Null
  /\ completions = 0 /\ hasError = FALSE /\ pkgResolveCache = EmptyMap /\ exitCode = -1
  /\ stages = <<>> /\ manifestFetches = <<>>

ExInit ==
  /\ impl \in Impls
  /\ exNode \in samplePrograms
  /\ exDeps = {}
  /\ exPc = "parsed"
  /\ RunIdle
  /\ RsIdle

\* const deps = new Set(); findDependencies(program, deps)
Walk ==
  /\ exPc = "parsed"
  /\ exDeps' = findDependencies(exNode)
  /\ exPc' = "walked"
  /\ UNCHANGED <<impl, exNode, runVars, rsVars>>

ExNext == Walk

SpecExtract == ExInit /\ [][ExNext]_vars

---------------------------------------------------------------------------
(* Package resolution alone: resolveExports and resolvePackageUrl are called *)

\* export-map values: targets, condition objects one and two levels deep,
\* and values that are neither
exportTargets == {Str("./x.js"), Str("./y.js")}
conditionNames == {"node", "default", "import", "types"}
conditionObjects(names, values) ==
  {Obj(f) : f \in UNION {[S -> values] : S \in SUBSET names}}
sampleExports ==
  exportTargets
  \cup conditionObjects(conditionNames, exportTargets)
  \cup conditionObjects({"node", "default"},
                        exportTargets \cup {Obj([types |-> Str("./x.d.ts")]),
                                            Obj([import |-> Str("./y.js")])})
  \cup conditionObjects({"production", "require", "browser"}, {Str("./x.js")})
  \cup {Null, Arr(<<Str("./x.js")>>), Bool(TRUE)}

\* the specifiers resolved, and the package.json a package may publish
sampleSpecifiers == {"r", "r/s", "@o/r", "@o/r/s"}
optional(field, values) == {<<>>} \cup {field :> v : v \in values}
sampleManifests(pkgName) ==
  {Null} \cup
  {Obj([name |-> Str(pkgName), version |-> Str("3")] @@ e @@ m @@ o) :
     e \in optional("exports",
                    {Str("./index.js"), Str("./lib.js"),
                     Obj("." :> Obj([import |-> Str("./esm.js"), default |-> Str("./lib.js")])),
                     Obj("./s" :> Str("./dist/s.js")),
                     Obj("./s.js" :> Str("./dist/s.js")),
                     Obj(("./s" :> Obj([import |-> Str("./esm/s.js"),
                                        default |-> Str("./dist/s.js")]))
                         @@ ("./s.js" :> Str("./other.js"))),
                     Obj(("./s" :> Obj([types |-> Str("./s.d.ts")]))
                         @@ ("." :> Obj([types |-> Str("./r.d.ts")])))}),
     m \in optional("main", {Str("lib.js"), Str("index.js"), Str("./main.js")}),
     o \in optional("module", {Str("esm.js"), Str("lib.js")})}

\* the specifiers and base locations resolveUrl is called with; a base is
\* the finalUrl of a fetched module, which src/cli.js only fetches remotely
sampleUrls ==
  {"r", "r/s", "@o/r", "http-errors", "https-proxy-agent",
   "https://cdn.jsdelivr.net/npm/r@3/x.js", "http://example.com/x.js",
   "./a.js", "../a.js", "/w/a.js", "fs", "http", "node:fs", "node:test"}
sampleBaseUrls ==
  {Null, Str(JSDELIVR_BASE \o "r@3/lib/index.js")}
  \cup (IF impl = "cli" THEN {} ELSE {Str("/w/src/index.js")})

RsInit ==
  /\ impl \in Impls
  /\ \/ /\ rsPc = "exports" /\ rsExp \in sampleExports
        /\ rsSpecifier = "" /\ rsManifest = Null /\ rsBaseUrl = Null
     \/ /\ rsPc = "package" /\ rsExp = Undefined
        /\ rsSpecifier \in sampleSpecifiers
        /\ rsManifest \in sampleManifests(parseBareSpecifier(rsSpecifier).pkgName)
        /\ rsBaseUrl = Null
     \/ /\ rsPc = "url" /\ rsExp = Undefined
        /\ rsSpecifier \in sampleUrls
        /\ rsManifest \in {Null, Obj([name |-> Str(parseBareSpecifier(rsSpecifier).pkgName),
                                      version |-> Str("3"), main |-> Str("lib.js")])}
        /\ rsBaseUrl \in sampleBaseUrls
  /\ rsResolved = Undefined /\ rsTargetUrls = <<>>
  /\ exNode = Null /\ exDeps = {} /\ exPc = "idle"
  /\ RunIdle

\* resolveExports(exp)
ResolveExports ==
  /\ rsPc = "exports"
  /\ rsResolved' = resolveExports(rsExp)
  /\ rsPc' = "returned"
  /\ UNCHANGED <<impl, runVars, exVars, rsExp, rsSpecifier, rsManifest, rsBaseUrl,
                 rsTargetUrls>>

\* resolvePackageUrl(specifier), the manifest fetch having settled
ResolvePackage ==
  /\ rsPc = "package"
  /\ rsTargetUrls' = packageTargetUrls(rsSpecifier, rsManifest)
  /\ rsPc' = "returned"
  /\ UNCHANGED <<impl, runVars, exVars, rsExp, rsSpecifier, rsManifest, rsBaseUrl,
                 rsResolved>>

\* resolveUrl(url, baseUrl): rsResolved is what it settles with before any
\* call of resolvePackageUrl, rsTargetUrls the candidates it returns
ResolveUrl ==
  /\ rsPc = "url"
  /\ rsResolved' = resolveUrl(rsSpecifier, rsBaseUrl)
  /\ rsTargetUrls' = IF rsResolved'.k = "package"
                     THEN packageTargetUrls(rsSpecifier, rsManifest)
                     ELSE IF rsResolved' = Null THEN <<>>
                     ELSE rsResolved'.items
  /\ rsPc' = "classified"
  /\ UNCHANGED <<impl, runVars, exVars, rsExp, rsSpecifier, rsManifest, rsBaseUrl>>

RsNext == ResolveExports \/ ResolvePackage \/ ResolveUrl

SpecResolve == RsInit /\ [][RsNext]_vars

---------------------------------------------------------------------------
(* Claims about the extractor and the environment pruner *)

\* every specifier written in a subtree: the string arguments of require
\* calls and the sources of imports and re-exports, wherever they sit
RECURSIVE specifiersIn(_)
specifiersIn(node) ==
  IF ~IsObject(node) THEN {}
  ELSE IF IsArray(node)
  THEN UNION {specifiersIn(node.items[i]) : i \in DOMAIN node.items}
  ELSE
    LET type == Get(node, "type")
        isLit(n) == /\ Get(n, "type") \in {Str("Literal"), Str("StringLiteral")}
                    /\ IsStr(Get(n, "value"))
        here ==
          IF /\ type \in moduleDeclarationTypes \cup {Str("ImportExpression")}
             /\ isLit(Get(node, "source"))
          THEN {Get(node, "source").value.s}
          ELSE IF /\ type = Str("CallExpression")
                  /\ Get(node, "callee") = Identifier("require")
                  /\ Len(node.arguments.items) > 0
                  /\ isLit(node.arguments.items[1])
          THEN {node.arguments.items[1].value.s}
          ELSE {}
    IN here \cup UNION {specifiersIn(node[f]) : f \in DOMAIN node \ {"k"}}

\* the if statement or ternary of a sample program, if it is one
theConditional ==
  LET s == exNode.body.items[1]
  IN IF Get(s, "type") = Str("IfStatement") THEN s
     ELSE IF Get(Get(s, "expression"), "type") = Str("ConditionalExpression")
     THEN s.expression ELSE Null

isStringLiteral(n) ==
  Get(n, "type") \in {Str("Literal"), Str("StringLiteral")} /\ IsStr(Get(n, "value"))

\* test is process.env.NODE_ENV <op> "<lit>", either order, op among ops
comparesNodeEnv(test, ops, lits) ==
  /\ Get(test, "type") = Str("BinaryExpression")
  /\ Get(test, "operator") \in ops
  /\ \/ /\ Get(test, "left") \in envReads
        /\ isStringLiteral(test.right) /\ test.right.value.s \in lits
     \/ /\ Get(test, "right") \in envReads
        /\ isStringLiteral(test.left) /\ test.left.value.s \in lits

found(branch) == IF Truthy(branch) THEN findDependencies(branch) ELSE {}

\* C6: an if statement or ternary testing process.env.NODE_ENV !== / !=
\* "production" yields exactly what its alternate yields and nothing written
\* only in the consequent; with === / == it yields exactly what its
\* consequent yields and nothing written only in the alternate.
C6_DefinitePruning ==
  (exPc = "walked" /\ theConditional # Null) =>
    LET c == theConditional
    IN /\ comparesNodeEnv(c.test, inequalityOperators, {"production"}) =>
            /\ exDeps = found(c.alternate)
            /\ exDeps \cap (specifiersIn(c.consequent) \ specifiersIn(c.alternate)) = {}
       /\ comparesNodeEnv(c.test, equalityOperators, {"production"}) =>
            /\ exDeps = found(c.consequent)
            /\ exDeps \cap (specifiersIn(c.alternate) \ specifiersIn(c.consequent)) = {}

\* C6 witness: a walked if statement with test NODE_ENV !== "production",
\* an alternate, and a specifier written only in the pruned consequent
C6_Witness ==
  /\ exPc = "walked"
  /\ theConditional # Null
  /\ comparesNodeEnv(theConditional.test, inequalityOperators, {"production"})
  /\ Truthy(theConditional.alternate)
  /\ "dev-only" \in specifiersIn(theConditional.consequent)
  /\ exDeps = {"prod-only", "shared"}

\* C7: when the test is not a comparison of process.env.NODE_ENV with a
\* string literal by ===, ==, !== or !=, every specifier written in the
\* consequent and in the alternate is in the output set.
C7_IndeterminateKeepsBoth ==
  (/\ exPc = "walked"
   /\ theConditional # Null
   /\ ~comparesNodeEnv(theConditional.test, equalityOperators \cup inequalityOperators,
                       comparedLiterals))
  => (specifiersIn(theConditional.consequent) \cup specifiersIn(theConditional.alternate))
       \subseteq exDeps

\* whether a test that compares NODE_ENV holds in production
heldInProduction(test) ==
  LET lit == IF Get(test, "left") \in envReads THEN test.right.value.s ELSE test.left.value.s
  IN IF Get(test, "operator") \in equalityOperators
     THEN lit = "production" ELSE lit # "production"

\* the specifier a node itself carries: the source of an import declaration,
\* a re-export or an import(), the string argument of a require call
writtenAt(node) ==
  LET type == Get(node, "type")
  IN IF /\ type \in moduleDeclarationTypes \cup {Str("ImportExpression")}
        /\ isStringLiteral(Get(node, "source"))
     THEN {node.source.value.s}
     ELSE IF /\ type = Str("CallExpression")
             /\ Get(node, "callee") = Identifier("require")
             /\ Len(node.arguments.items) > 0
             /\ isStringLiteral(node.arguments.items[1])
     THEN {node.arguments.items[1].value.s}
     ELSE {}

\* every specifier written in a subtree and not inside a pruned branch
RECURSIVE unprunedSpecifiersIn(_)
unprunedSpecifiersIn(node) ==
  IF ~IsObject(node) THEN {}
  ELSE IF IsArray(node)
  THEN UNION {unprunedSpecifiersIn(node.items[i]) : i \in DOMAIN node.items}
  ELSE IF /\ Get(node, "type") \in {Str("IfStatement"), Str("ConditionalExpression")}
          /\ comparesNodeEnv(node.test, equalityOperators \cup inequalityOperators,
                             comparedLiterals)
  THEN unprunedSpecifiersIn(IF heldInProduction(node.test)
                            THEN node.consequent ELSE node.alternate)
  ELSE writtenAt(node) \cup UNION {unprunedSpecifiersIn(node[f]) : f \in DOMAIN node \ {"k"}}

\* C20: the output set is the set of specifiers of every import declaration,
\* re-export, import() and require call of the tree that is not inside a
\* pruned branch, wherever it sits.
C20_ExtractionComplete ==
  exPc = "walked" => exDeps = unprunedSpecifiersIn(exNode)

---------------------------------------------------------------------------
(* Claims about the orchestrator *)

\* every task started so far is over
allSettled ==
  runPc # "start" /\ \A i \in DOMAIN tasks : tasks[i].pc = "settled"

\* how many entries of seq are x
occurrences(seq, x) == Cardinality({k \in DOMAIN seq : seq[k] = x})

\* fetchFile returned a result to task i
fetchedOk(i) == tasks[i].finalUrl # ""

outcomesSeen == {tasks[i].outcome : i \in DOMAIN tasks}

\* C1: the completion signal fires exactly once: it has fired when every
\* task started has settled, whatever the outcomes, and it never fires a
\* second time.
C1_CompletionExactlyOnce ==
  /\ completions <= 1
  /\ allSettled => completions = 1

\* C1 witness: a run of several tasks, one of which failed to fetch and one
\* of which was expanded, is over and the signal has fired once
C1_Witness ==
  /\ allSettled
  /\ Len(tasks) >= 3
  /\ {"fetchFailed", "expanded", "noCandidates"} \subseteq outcomesSeen
  /\ completions = 1

\* C2: when the completion signal has fired no task is still resolving,
\* fetching, parsing or scheduling, and from then on bundleParts and
\* parsedUrls never change.
C2_CompletionAfterAllSettled ==
  /\ [](completions > 0 => allSettled)
  /\ [][completions > 0 => UNCHANGED <<bundleParts, parsedUrls, tasks>>]_vars

\* C2 witness: the signal has fired at the end of a run in which a task
\* scheduled by a task scheduled by the entry was bundled
C2_Witness ==
  /\ completions > 0
  /\ \E i, j \in DOMAIN tasks :
       /\ tasks[i].parent = 1 /\ tasks[j].parent = i
       /\ tasks[j].outcome = "expanded"
  /\ Len(bundleParts) >= 3

\* C3: whatever number of tasks resolve to one location, the text of that
\* location has been appended to the bundle at most once.
C3_DedupLaw ==
  \A i \in DOMAIN tasks :
    fetchedOk(i) => occurrences(bundleParts, tasks[i].finalUrl) <= 1

\* C3 witness: three tasks were started for one location and its text is
\* in the bundle once
C3_Witness ==
  \E i \in DOMAIN tasks :
    /\ tasks[i].outcome = "expanded"
    /\ occurrences(bundleParts, tasks[i].finalUrl) = 1
    /\ \E j, k \in DOMAIN tasks :
         /\ j # k /\ j # i /\ k # i
         /\ tasks[j].outcome = "visited" /\ tasks[k].outcome = "duplicate"
         /\ tasks[k].finalUrl = tasks[i].finalUrl
         /\ tasks[j].targetUrls.items[1] = tasks[i].finalUrl

\* tasks i and j both passed the check of the primary URL while the location
\* both were to fetch was not marked, and both fetched it
raced(i, j) ==
  /\ i # j
  /\ tasks[i].pc = "settled" /\ tasks[j].pc = "settled"
  /\ fetchedOk(i) /\ tasks[j].finalUrl = tasks[i].finalUrl
  /\ tasks[i].finalUrl \notin tasks[i].parsedAtCheck
  /\ tasks[i].finalUrl \notin tasks[j].parsedAtCheck

\* C4 as stated: after two tasks raced for one location the bundle holds
\* two entries for it.
C4_RaceYieldsDuplicate ==
  \A i, j \in DOMAIN tasks :
    raced(i, j) => occurrences(bundleParts, tasks[i].finalUrl) = 2

\* C4: two tasks can both pass the check and both fetch one location, but the
\* one that resumes second finds the location marked by the check made after
\* the fetch and returns: the bundle holds no second entry for it.
C4_RaceClosedAfterFetch ==
  \A i, j \in DOMAIN tasks :
    raced(i, j) =>
      /\ "duplicate" \in {tasks[i].outcome, tasks[j].outcome}
      /\ occurrences(bundleParts, tasks[i].finalUrl) < 2

\* C4 witness: two tasks raced, one was bundled and the other dropped
C4_Witness ==
  \E i, j \in DOMAIN tasks :
    /\ raced(i, j)
    /\ tasks[i].outcome = "expanded" /\ tasks[j].outcome = "duplicate"
    /\ occurrences(bundleParts, tasks[i].finalUrl) = 1

\* C5: at completion the text of every location that some task fetched is
\* in the bundle exactly once.
C5_FetchedIsBundledOnce ==
  completions > 0 =>
    \A i \in DOMAIN tasks :
      fetchedOk(i) => occurrences(bundleParts, tasks[i].finalUrl) = 1

\* task i ends in this step
settles(i) == tasks[i].pc # "settled" /\ tasks'[i].pc = "settled"

\* C8: a task whose fetch or parse fails settles and is not tried again; the
\* step leaves every other task as it was and, for a failed fetch, leaves the
\* bundle, the visited set and the package cache as they were; a sibling
\* whose fetch succeeds is appended and expanded; completion fires once all
\* have settled.
C8_FailureIsolation ==
  /\ [][\A i \in DOMAIN tasks :
          /\ (tasks[i].pc = "fetching" /\ tasks'[i] # tasks[i]) => tasks'[i].pc = "settled"
          /\ tasks[i].pc = "settled" => tasks'[i] = tasks[i]
          /\ (settles(i) /\ tasks'[i].outcome \in {"fetchFailed", "parseFailed"}) =>
               /\ \A j \in DOMAIN tasks \ {i} : tasks'[j] = tasks[j]
               /\ Len(tasks') = Len(tasks)
               /\ UNCHANGED <<pkgResolveCache, hasError>>
               /\ tasks'[i].outcome = "fetchFailed" => UNCHANGED <<parsedUrls, bundleParts>>
          /\ (settles(i) /\ tasks'[i].finalUrl # "" /\ tasks'[i].finalUrl \notin parsedUrls) =>
               /\ bundleParts' = Append(bundleParts, tasks'[i].finalUrl)
               /\ tasks'[i].outcome \in {"expanded", "parseFailed"}
               /\ Len(tasks') = Len(tasks) + Cardinality(tasks'[i].deps)
       ]_vars
  /\ []((allSettled /\ outcomesSeen \cap {"fetchFailed", "parseFailed"} # {})
          => completions = 1)

\* C8 witness: of two tasks started by one module, one failed to fetch and
\* the other was bundled and expanded; of two others one failed to parse;
\* the run is over
C8_Witness ==
  /\ allSettled /\ completions = 1
  /\ \E i, j \in DOMAIN tasks :
       /\ i < j /\ tasks[i].parent = tasks[j].parent
       /\ tasks[i].outcome = "fetchFailed"
       /\ tasks[j].outcome = "expanded"
       /\ occurrences(bundleParts, tasks[j].finalUrl) = 1
       /\ tasks[j].deps # {}
  /\ "parseFailed" \in outcomesSeen

\* what NODE_BUILTINS and the node: prefix name
isBuiltin(url) == url \in NODE_BUILTINS \/ startsWith(url, "node:")

\* C9: a task started for a builtin specifier gets no candidates, never
\* fetches, never fails to fetch, and adds nothing to the bundle or the
\* visited set.
C9_BuiltinsAreNoOps ==
  \A i \in DOMAIN tasks :
    isBuiltin(tasks[i].url) =>
      /\ tasks[i].pc \in {"resolved", "settled"}
      /\ ~Truthy(tasks[i].targetUrls)
      /\ tasks[i].outcome \in {"pending", "noCandidates"}
      /\ tasks[i].finalUrl = ""

\* C10: when the entry module was fetched and nothing was extracted from it,
\* one task was started and no other ever is, the bundle holds one module
\* and the completion signal fired as that task settled.
C10_LeafEntry ==
  (/\ Len(tasks) >= 1
   /\ tasks[1].outcome = "expanded"
   /\ tasks[1].deps = {})
  => /\ Len(tasks) = 1
     /\ bundleParts = <<tasks[1].finalUrl>>
     /\ activeTasks = 0
     /\ completions = 1

\* C10 witness: the run of an entry without dependencies has finished
C10_Witness ==
  /\ Len(tasks) = 1
  /\ tasks[1].outcome = "expanded" /\ tasks[1].deps = {}
  /\ runPc = "exited" /\ exitCode = 0

\* C11: a run that ends with an empty bundle exits with a nonzero status
\* and neither minifies nor reports; the report is printed only by runs
\* whose bundle holds at least one module.
C11_EmptyBundleIsFatal ==
  runPc = "exited" =>
    /\ Len(bundleParts) = 0 => (exitCode # 0 /\ stages = <<>>)
    /\ (\E k \in DOMAIN stages : stages[k] = "report") => Len(bundleParts) >= 1

\* C11 witness: the entry is a builtin, nothing was bundled, the run exited
\* with status 1 and printed no report
C11_Witness ==
  /\ runPc = "exited"
  /\ tasks[1].outcome = "noCandidates"
  /\ bundleParts = <<>>
  /\ exitCode = 1 /\ stages = <<>>

\* C12: a run ends with a nonzero status exactly when some task reached the
\* catch-all handler (hasError) or the bundle is empty.
C12_FaultExitsNonzero ==
  runPc = "exited" => (exitCode # 0 <=> (hasError \/ Len(bundleParts) = 0))

\* C13: the manifest of a package is handed to fetch at most once in a run.
C13_ManifestFetchedOnce ==
  \A i, j \in DOMAIN manifestFetches :
    i # j => manifestFetches[i] # manifestFetches[j]

---------------------------------------------------------------------------
(* Claims about package resolution *)

\* the priority order of the export conditions
priorityOrder == <<"production", "node", "require", "default", "import", "browser">>

isConditionObject(exp) == IsObject(exp) /\ exp.k = "obj"

\* the conditions of the priority order that exp has, most preferred first
presentConditions(exp) == SelectSeq(priorityOrder, LAMBDA c : c \in DOMAIN exp)

\* what the first present condition of each level leads to
RECURSIVE firstPresentTarget(_)
firstPresentTarget(exp) ==
  IF IsStr(exp) THEN exp
  ELSE IF isConditionObject(exp) /\ presentConditions(exp) # <<>>
  THEN firstPresentTarget(exp[Head(presentConditions(exp))])
  ELSE Null

\* C14: resolveExports returns a string unchanged; for a condition object it
\* returns what the value of the first condition present in the order
\* production, node, require, default, import, browser resolves to, and
\* nothing if that resolves to nothing; an object with none of them, and a
\* value that is neither, resolve to nothing.
C14_ExportConditions ==
  rsPc = "returned" /\ rsExp # Undefined =>
    /\ IsStr(rsExp) => rsResolved = rsExp
    /\ (isConditionObject(rsExp) /\ presentConditions(rsExp) = <<>>) => rsResolved = Null
    /\ rsResolved = firstPresentTarget(rsExp)

\* C14 witness: the value of node resolves to nothing and default, which is
\* present and is a target, is not tried
C14_Witness ==
  /\ rsPc = "returned"
  /\ isConditionObject(rsExp)
  /\ DOMAIN rsExp = {"k", "node", "default"}
  /\ rsExp.node = Obj([types |-> Str("./x.d.ts")])
  /\ rsExp.default = Str("./y.js")
  /\ rsResolved = Null

\* the package name and the subpath of the specifier resolved
rsPkgName == parseBareSpecifier(rsSpecifier).pkgName
rsSubpath == parseBareSpecifier(rsSpecifier).subpath

\* name@version when the manifest was fetched, else the bare name
manifestBase ==
  IF rsManifest = Null THEN JSDELIVR_BASE \o rsPkgName \o "/"
  ELSE JSDELIVR_BASE \o rsManifest.name.s \o "@" \o rsManifest.version.s \o "/"

\* the location of an entry under the manifest base
locationOf(entry) ==
  manifestBase \o (IF startsWith(entry, "./") THEN SubSeq(entry, 3, Len(entry)) ELSE entry)

\* the field of the manifest, Undefined without a manifest or without it
manifestField(field) ==
  IF rsManifest # Null /\ field \in DOMAIN rsManifest THEN rsManifest[field] ELSE Undefined

\* the export-map entry for "./s", or else for "./s.js"
subpathEntry ==
  LET exports == manifestField("exports")
      key == "./" \o rsSubpath
  IN IF ~isConditionObject(exports) THEN Undefined
     ELSE IF key \in DOMAIN exports THEN exports[key]
     ELSE IF (key \o ".js") \in DOMAIN exports THEN exports[key \o ".js"]
     ELSE Undefined

\* C15: for a specifier with a subpath s the candidates are the target of the
\* export-map entry for "./s" (or else "./s.js"), when it resolves to one,
\* followed by the raw subpath; without such an entry or without a manifest
\* the raw subpath alone; each joined against the manifest base.
C15_SubpathCandidates ==
  (rsPc = "returned" /\ rsSpecifier # "" /\ rsSubpath # "") =>
    LET target == firstPresentTarget(subpathEntry)
    IN rsTargetUrls = IF IsStr(target)
                      THEN <<locationOf(target.s), locationOf(rsSubpath)>>
                      ELSE <<locationOf(rsSubpath)>>

\* C15 witness: "@o/r/s" against a manifest whose entry for "./s" is a
\* condition object: the default target first, the raw subpath after it
C15_Witness ==
  /\ rsPc = "returned"
  /\ rsSpecifier = "@o/r/s"
  /\ rsManifest # Null
  /\ isConditionObject(subpathEntry)
  /\ rsTargetUrls = <<"https://cdn.jsdelivr.net/npm/@o/r@3/dist/s.js",
                      "https://cdn.jsdelivr.net/npm/@o/r@3/s">>

\* the first occurrences of seq, in order
RECURSIVE firstOccurrences(_)
firstOccurrences(seq) ==
  IF Len(seq) = 0 THEN <<>>
  ELSE LET front == firstOccurrences(SubSeq(seq, 1, Len(seq) - 1))
           last == seq[Len(seq)]
       IN IF \E k \in DOMAIN front : front[k] = last THEN front ELSE Append(front, last)

\* the root export, main, module and index.js, those that are present
rootEntries ==
  LET exports == manifestField("exports")
      root == IF isConditionObject(exports) /\ "." \in DOMAIN exports
              THEN firstPresentTarget(exports["."])
              ELSE firstPresentTarget(exports)
      keep(v) == IF IsStr(v) THEN <<v.s>> ELSE <<>>
  IN keep(root) \o keep(manifestField("main")) \o keep(manifestField("module")) \o <<"index.js">>

\* C16: for a specifier without a subpath the candidates are the resolved
\* root export, main, module and index.js in that order, and no location
\* occurs twice in the list, the first occurrence being the one kept.
C16_RootCandidates ==
  (rsPc = "returned" /\ rsSpecifier # "" /\ rsSubpath = "") =>
    /\ \A i, j \in DOMAIN rsTargetUrls : i # j => rsTargetUrls[i] # rsTargetUrls[j]
    /\ rsTargetUrls = firstOccurrences([i \in DOMAIN rootEntries |-> locationOf(rootEntries[i])])

---------------------------------------------------------------------------
(* Further claims about the orchestrator *)

\* C17: a task whose text cannot be parsed has appended the text and marked
\* its location; it starts no task and decrements the counter.
C17_ParseFailureKeepsText ==
  /\ [][\A i \in DOMAIN tasks :
          (settles(i) /\ tasks'[i].outcome = "parseFailed") =>
            /\ bundleParts' = Append(bundleParts, tasks'[i].finalUrl)
            /\ tasks'[i].finalUrl \in parsedUrls'
            /\ Len(tasks') = Len(tasks)
            /\ activeTasks' = activeTasks - 1
       ]_vars
  /\ [](\A i \in DOMAIN tasks :
          tasks[i].outcome = "parseFailed" =>
            /\ occurrences(bundleParts, tasks[i].finalUrl) = 1
            /\ tasks[i].finalUrl \in parsedUrls
            /\ \A j \in DOMAIN tasks : tasks[j].parent # i)

\* C17 witness: the run is over, the text that did not parse is in the
\* bundle between two that did
C17_Witness ==
  /\ allSettled /\ completions = 1
  /\ \E i \in DOMAIN tasks :
       /\ tasks[i].outcome = "parseFailed"
       /\ \E k \in DOMAIN bundleParts :
            /\ bundleParts[k] = tasks[i].finalUrl
            /\ 1 < k /\ k < Len(bundleParts)

\* the tasks whose cleanup step has not run
liveTasks == {i \in DOMAIN tasks : tasks[i].pc # "settled"}

\* C19: activeTasks is the number of tasks started whose cleanup step has
\* not run; a task that ends, however it ends, takes one off, the tasks its
\* body started having been counted; the counter is never negative.
C19_LiveTaskCounter ==
  /\ [](activeTasks = Cardinality(liveTasks) /\ activeTasks >= 0)
  /\ [][\A i \in DOMAIN tasks :
          settles(i) => activeTasks' = activeTasks + (Len(tasks') - Len(tasks)) - 1]_vars

\* C19 witness: one task is live, started by a task that ended normally
\* beside one that ended by a throw
C19_Witness ==
  /\ activeTasks = 1
  /\ Cardinality(liveTasks) = 1
  /\ {"threw", "expanded"} \subseteq outcomesSeen

\* the requests the claim has fetchFile make for its list, in order: each
\* candidate, then the candidate with each suffix that applies to it
hasSourceExtension(u) == \E e \in {".js", ".mjs", ".cjs", ".ts"} : endsWith(u, e)

remoteTriesOf(candidate) ==
  <<candidate>> \o (IF hasSourceExtension(candidate) THEN <<>>
                    ELSE <<candidate \o ".js", candidate \o ".mjs", candidate \o "/index.js">>)

localTriesOf(candidate) ==
  <<candidate, candidate \o ".js", candidate \o ".mjs", candidate \o ".cjs",
    candidate \o ".ts", candidate \o "/index.js">>

RECURSIVE triesOfAll(_, _)
triesOfAll(urls, local) ==
  IF Len(urls) = 0 THEN <<>>
  ELSE (IF local THEN localTriesOf(Head(urls)) ELSE remoteTriesOf(Head(urls)))
       \o triesOfAll(Tail(urls), local)

\* C18: whatever fetchFile returns is the first request of the ordered list
\* that succeeds, every request before it having failed; it throws the
\* not-found error only when every request of every candidate can fail, and
\* does throw it then; a local list holds one candidate.
C18_FirstSuccessWins ==
  \A i \in DOMAIN tasks :
    tasks[i].pc = "fetching" =>
      LET urls == tasks[i].targetUrls.items
          local == impl # "cli" /\ isLocalFile(urls[1])
          tries == triesOfAll(urls, local)
          succeeds(u) == IF local THEN u \in localFiles ELSE canSucceed(u)
          fails(u) == IF local THEN u \notin localFiles ELSE canFail(u)
      IN /\ local => Len(urls) = 1
         /\ \A r \in fetchFile(urls) :
              IF r = NotFound
              THEN \A k \in DOMAIN tries : fails(tries[k])
              ELSE \E k \in DOMAIN tries :
                     /\ succeeds(tries[k])
                     /\ \A j \in 1..(k - 1) : fails(tries[j])
                     /\ IF r = Null THEN tries[k] \in unreadableFiles
                        ELSE r.finalUrl = tries[k]
         /\ (\A k \in DOMAIN tries : fails(tries[k])) => NotFound \in fetchFile(urls)

\* C18 witness: a task is fetching a list of two candidates over a network
\* on which the first may fail: the second candidate may be what is
\* returned, and so may the error
C18_Witness ==
  \E i \in DOMAIN tasks :
    /\ tasks[i].pc = "fetching"
    /\ Len(tasks[i].targetUrls.items) = 2
    /\ Fetched(tasks[i].targetUrls.items[2], FALSE) \in fetchFile(tasks[i].targetUrls.items)
    /\ NotFound \in fetchFile(tasks[i].targetUrls.items)

---------------------------------------------------------------------------
(* Claims about the classification of specifiers *)

\* a URL with a scheme, as opposed to a name that begins with the letters http
isAbsoluteUrl(url) == startsWith(url, "http://") \/ startsWith(url, "https://")
isPathSpecifier(url) == startsWith(url, ".") \/ startsWith(url, "/")
isBarePackage(url) == ~isBuiltin(url) /\ ~isPathSpecifier(url) /\ ~isAbsoluteUrl(url)

\* C21: resolveUrl hands every bare package specifier, one that begins with
\* the letters http included, to resolvePackageUrl and returns what that
\* returns; a specifier returned unchanged as the single candidate is an
\* absolute URL, or a path specifier (which is its own location when there
\* is no base, or when it is absolute already).
C21_ClassifiedByKind ==
  rsPc = "classified" =>
    /\ isBarePackage(rsSpecifier) =>
         /\ rsResolved.k = "package"
         /\ rsTargetUrls = packageTargetUrls(rsSpecifier, rsManifest)
    /\ rsTargetUrls = <<rsSpecifier>> => isAbsoluteUrl(rsSpecifier) \/ isPathSpecifier(rsSpecifier)

---------------------------------------------------------------------------
(* Further claims about the environment pruner *)

\* test compares process.env.NODE_ENV, by one of the four operators, with
\* an operand that is not a string literal
comparesNodeEnvWithNonString(test) ==
  /\ Get(test, "type") = Str("BinaryExpression")
  /\ Get(test, "operator") \in equalityOperators \cup inequalityOperators
  /\ \/ Get(test, "left") \in envReads /\ ~isStringLiteral(test.right)
     \/ Get(test, "right") \in envReads /\ ~isStringLiteral(test.left)

\* C22: against a string literal other than "production", === / == yield
\* exactly what is written in the alternate and !== / != exactly what is
\* written in the consequent; against an operand that is not a string
\* literal, what is written in either branch is in the output set.
C22_NarrowLiteralMatch ==
  (exPc = "walked" /\ theConditional # Null) =>
    LET c == theConditional
        others == comparedLiterals \ {"production"}
    IN /\ comparesNodeEnv(c.test, equalityOperators, others) =>
            exDeps = specifiersIn(c.alternate)
       /\ comparesNodeEnv(c.test, inequalityOperators, others) =>
            exDeps = specifiersIn(c.consequent)
       /\ comparesNodeEnvWithNonString(c.test) =>
            specifiersIn(c.consequent) \cup specifiersIn(c.alternate) \subseteq exDeps

\* C22 witness: a walked if statement testing NODE_ENV == "test" whose
\* consequent holds a specifier the alternate does not, which is left out
C22_Witness ==
  /\ exPc = "walked"
  /\ theConditional # Null
  /\ comparesNodeEnv(theConditional.test, {Str("==")}, {"test"})
  /\ "dev-only" \in specifiersIn(theConditional.consequent)
  /\ exDeps = {"prod-only", "shared"}

\* C22 witness: a walked ternary comparing NODE_ENV with a variable, both
\* branches in the output
C22_WitnessNonString ==
  /\ exPc = "walked"
  /\ theConditional # Null
  /\ comparesNodeEnvWithNonString(theConditional.test)
  /\ exDeps = {"a", "b"}

---------------------------------------------------------------------------
(* Claims about the visited set and the order of the bundle *)

\* the locations whose text is in the bundle
bundled == {bundleParts[k] : k \in DOMAIN bundleParts}

\* C23: every visited location is the location of a text in the bundle,
\* which some task fetched, and there are as many visited locations as
\* bundle entries.
C23_VisitedAreBundled ==
  /\ \A u \in parsedUrls :
       /\ u \in bundled
       /\ \E i \in DOMAIN tasks :
            tasks[i].outcome \in {"expanded", "parseFailed"} /\ tasks[i].finalUrl = u
  /\ Cardinality(parsedUrls) = Len(bundleParts)

\* task i was fetching and its fetch completes in this step with a text
\* that the task appends
completesAndAppends(i) ==
  /\ tasks[i].pc = "fetching"
  /\ tasks'[i].outcome \in {"expanded", "parseFailed"}

\* where the text task i appended stands in the bundle
bundleIndex(i) == CHOOSE k \in DOMAIN bundleParts : bundleParts[k] = tasks[i].finalUrl

\* C24: a step leaves the bundle as it is or appends one entry to it; the
\* step in which the fetch of an appending task completes appends that
\* task's text at the end, so the entries stand in the order in which the
\* fetches completed; nothing else changes the bundle.
C24_AppendInCompletionOrder ==
  [][/\ \A i \in DOMAIN tasks :
          completesAndAppends(i) => bundleParts' = Append(bundleParts, tasks'[i].finalUrl)
     /\ bundleParts' # bundleParts => \E i \in DOMAIN tasks : completesAndAppends(i)]_vars

\* C24 witness: two texts are in the bundle in the order opposite to that
\* in which their tasks were started
C24_Witness ==
  \E i, j \in DOMAIN tasks :
    /\ i < j
    /\ tasks[i].outcome \in {"expanded", "parseFailed"}
    /\ tasks[j].outcome \in {"expanded", "parseFailed"}
    /\ bundleIndex(j) < bundleIndex(i)

---------------------------------------------------------------------------
(* Claims about termination *)

\* every location a module can be fetched from
locations == cdnFiles \cup localFiles

\* the tasks started by task i
childrenOf(i) == {j \in DOMAIN tasks : tasks[j].parent = i}

\* C25: tasks are started only by run, once, and by a task that appended a
\* text, one for each dependency it found; a location is appended at most
\* once, so the tasks started are bounded by the locations there are; and,
\* every fetch settling in the end, every task has settled, the counter is
\* back at zero and the completion signal has fired, for good.
C25_Terminates ==
  /\ [](/\ \A j \in DOMAIN tasks : (tasks[j].parent = 0) = (j = 1)
        /\ \A i \in DOMAIN tasks :
             /\ Cardinality(childrenOf(i)) = Cardinality(tasks[i].deps)
             /\ childrenOf(i) # {} => tasks[i].outcome = "expanded"
        /\ Cardinality(bundled) = Len(bundleParts)
        /\ bundled \subseteq locations)
  /\ <>[](allSettled /\ activeTasks = 0 /\ completions > 0)

\* C25 witness: the run is over and a module was found to import the
\* module that imported it (A imports B, B imports A), another to import
\* itself
C25_Witness ==
  /\ allSettled /\ activeTasks = 0 /\ completions > 0
  /\ \E h, i, j \in DOMAIN tasks :
       /\ tasks[i].parent = h /\ tasks[j].parent = i
       /\ tasks[h].finalUrl # tasks[i].finalUrl
       /\ tasks[j].outcome = "visited"
       /\ tasks[j].targetUrls.items[1] = tasks[h].finalUrl

C25_WitnessSelfImport ==
  /\ allSettled /\ activeTasks = 0 /\ completions > 0
  /\ \E i, j \in DOMAIN tasks :
       /\ tasks[j].parent = i
       /\ tasks[j].outcome = "visited"
       /\ tasks[j].targetUrls.items[1] = tasks[i].finalUrl

---------------------------------------------------------------------------
(* Claims about the task that ends at the check of its first candidate *)

\* the locations fetchFile can return a text from for a candidate list
fetchable(urls) ==
  {r.finalUrl : r \in {x \in fetchFile(urls) : x # Null /\ x # NotFound}}

\* C26: when a task ended because its first candidate was in the visited
\* set and its candidate list can be fetched at all, a location the list
\* can be fetched from is in the bundle.
C26_SkipIsSound ==
  \A i \in DOMAIN tasks :
    (tasks[i].outcome = "visited" /\ fetchable(tasks[i].targetUrls.items) # {}) =>
      fetchable(tasks[i].targetUrls.items) \cap bundled # {}

---------------------------------------------------------------------------
(* Claims about the order of a module and its dependencies *)

\* task i appended a text
appended(i) == tasks[i].outcome \in {"expanded", "parseFailed"}

\* C27: a task other than the first was started by a task that had appended
\* its text by then; the text of the entry, when it is in the bundle, is the
\* first entry; and the text a task appended stands after the text appended
\* by the task that started it.
C27_ParentBeforeChild ==
  /\ \A j \in DOMAIN tasks :
       tasks[j].parent # 0 =>
         /\ appended(tasks[j].parent)
         /\ appended(j) => bundleIndex(tasks[j].parent) < bundleIndex(j)
  /\ (tasks # <<>> /\ appended(1)) => bundleParts[1] = tasks[1].finalUrl

\* C27 witness: the texts of a module and of one of its dependencies are in
\* the bundle with the text of another task between them
C27_Witness ==
  \E i, j \in DOMAIN tasks :
    /\ tasks[j].parent = i
    /\ appended(i) /\ appended(j)
    /\ bundleIndex(j) > bundleIndex(i) + 1

====
